---- MODULE Spec2Model ----
(***************************************************************************)
(* Model of internal/transcription/adapters/mlx_apapter.go: the MLX        *)
(* adapter's PrepareEnvironment (environment provisioning) and Transcribe  *)
(* (one transcription job run as an engine subprocess), called             *)
(* concurrently on one adapter instance.                                   *)
(***************************************************************************)
EXTENDS Naturals, FiniteSets, Sequences, TLC

\* ------------------------------------------------------------------ bounds

\* Total number of PrepareEnvironment / Transcribe calls made on the adapter.
MaxCalls == 2

\* Goroutines calling PrepareEnvironment, and jobs calling Transcribe.
Preparers == {"p1", "p2"}
Jobs == {"j1", "j2"}

\* Output directories a caller may pass in ProcessingContext.OutputDirectory:
\* two that exist, and a path at which there is no directory.
Dirs == {"out1", "out2", "nodir"}
DirExists(d) == d # "nodir"

\* Host platforms (runtime.GOOS).
Platforms == {"darwin", "linux"}

\* ------------------------------------------------------------------ errors

Nil == "nil"

\* mlx_apapter.go:84
ErrUnsupportedPlatform == "MLX adapter is only supported on macOS"
\* mlx_apapter.go:97 (the error of os.MkdirAll, returned as is)
ErrMkdir == "mkdir failed"
\* mlx_apapter.go:106
ErrInit == "uv init failed"
\* mlx_apapter.go:114
ErrInstall == "failed to install mlx-whisper"
\* BaseAdapter.ValidateAudioInput
ErrInvalidInput == "InvalidInput"
\* BaseAdapter.CreateTempDirectory
ErrTempDir == "create temp directory failed"
\* mlx_apapter.go:140
ErrWriteScript == "failed to write script"
\* mlx_apapter.go:160, by the error of cmd.Run that it wraps
ErrExecExit == "MLX execution failed: exit status 1"
ErrExecKilled == "MLX execution failed: signal: killed"
ErrExecCanceled == "MLX execution failed: context canceled"
ErrExecDeadline == "MLX execution failed: context deadline exceeded"
\* mlx_apapter.go:169 (the error of os.ReadFile, returned as is)
ErrReadFile == "open output.json: no such file or directory"
\* mlx_apapter.go:183
ErrParse == "failed to parse MLX output"

\* The error kind of the adapter contract that a caller can tell from a
\* returned error (by its message, and by errors.Is through the %w wrapping).
ErrorKind(e) ==
    CASE e = ErrUnsupportedPlatform -> "UnsupportedPlatform"
      [] e \in {ErrMkdir, ErrInit, ErrInstall} -> "ProvisioningFailed"
      [] e = ErrInvalidInput -> "InvalidInput"
      [] e = ErrExecCanceled -> "ExecutionCancelled"
      [] e = ErrExecDeadline -> "ExecutionTimeout"
      [] e \in {ErrExecExit, ErrExecKilled} -> "EngineExecutionFailed"
      [] e = ErrParse -> "OutputParseError"
      [] OTHER -> "unclassified"

\* -------------------------------------------------------- parameter schema

DefaultModel == "mlx-community/whisper-large-v3-mlx"
BaseModel == "mlx-community/whisper-base-mlx"

\* NewMLXAdapter's schema: no parameter is required, every one has a
\* default of type string.
schema ==
    << [Name |-> "model", Type |-> "string", Required |-> FALSE,
        Default |-> DefaultModel],
       [Name |-> "quantization", Type |-> "string", Required |-> FALSE,
        Default |-> "4bit"] >>

\* A value of params[name]: absent, a string, or a value of another type.
Absent == [present |-> FALSE, type |-> "none", val |-> ""]
StrVal(s) == [present |-> TRUE, type |-> "string", val |-> s]
NumVal == [present |-> TRUE, type |-> "number", val |-> "42"]

\* The params maps the callers pass (only "model" is read by the adapter).
ParamMaps == { [model |-> v] : v \in {Absent, StrVal(BaseModel), NumVal} }

SchemaDefault(name) ==
    LET hits == { i \in DOMAIN schema : schema[i].Name = name }
    IN  IF hits = {} THEN "" ELSE schema[CHOOSE i \in hits : TRUE].Default

\* BaseAdapter.GetStringParameter: the value when it is a string, else the
\* schema's default; it has no error result.
GetStringParameter(params, name) ==
    IF params[name].present /\ params[name].type = "string"
    THEN params[name].val
    ELSE SchemaDefault(name)

\* ------------------------------------------------------- result normalizer

\* Longest segment list of an engine result.
MaxSegs == 2

\* A Python float of the engine's result: finite, or one of the non-finite
\* values.
Fin(n) == [kind |-> "finite", v |-> n]
NaN == [kind |-> "nan", v |-> 0]
PosInf == [kind |-> "+inf", v |-> 0]
NegInf == [kind |-> "-inf", v |-> 0]
IsFinite(x) == x.kind = "finite"

\* A JSON value of output.json: a number or null.
JNum(n) == [kind |-> "num", v |-> n]
JNull == [kind |-> "null", v |-> 0]

\* A Go float64 of the decoded output and of the result.
Float64(n) == [kind |-> "num", v |-> n]

\* Texts, as sequences of characters.
StrHi == << "h", "i" >>
StrHiPadded == << " ", "h", "i", " " >>
StrHiPaddedMore == << " ", "h", "i", " ", " " >>

\* clean_obj of the driver script on a float: NaN and the infinities become
\* None, which json.dump writes as null.
clean_obj(x) == IF IsFinite(x) THEN JNum(x.v) ELSE JNull

\* clean_obj on the engine's result (a dict holding a list of dicts),
\* written by json.dump.
DumpResult(raw) ==
    [text |-> raw.text, language |-> raw.language,
     segments |-> [i \in DOMAIN raw.segments |->
                     [start |-> clean_obj(raw.segments[i].start),
                      end |-> clean_obj(raw.segments[i].end),
                      text |-> raw.segments[i].text]]]

\* json.Unmarshal into a float64 field: a number is stored, null leaves the
\* field at its zero value.
UnmarshalFloat(v) == IF v.kind = "num" THEN Float64(v.v) ELSE Float64(0)

\* json.Unmarshal of output.json into mlxOutput.
Unmarshal(doc) ==
    [Text |-> doc.text, Language |-> doc.language,
     Segments |-> [i \in DOMAIN doc.segments |->
                     [Start |-> UnmarshalFloat(doc.segments[i].start),
                      End |-> UnmarshalFloat(doc.segments[i].end),
                      Text |-> doc.segments[i].text]]]

\* strings.TrimSpace.
IsSpace(c) == c \in {" ", "\t", "\n", "\r"}
RECURSIVE TrimLeft(_)
TrimLeft(str) ==
    IF str # << >> /\ IsSpace(Head(str)) THEN TrimLeft(Tail(str)) ELSE str
RECURSIVE TrimRight(_)
TrimRight(str) ==
    IF str # << >> /\ IsSpace(str[Len(str)])
    THEN TrimRight(SubSeq(str, 1, Len(str) - 1))
    ELSE str
TrimSpace(str) == TrimRight(TrimLeft(str))

\* The loop over mlxOutput.Segments: every segment is copied in place, its
\* text trimmed.
ConvertSegmentsSwapped(segs) ==
    [i \in DOMAIN segs |->
        [Start |-> segs[i].End, End |-> segs[i].Start,
         Text |-> TrimSpace(segs[i].Text)]]
ConvertSegments(segs) ==
    [i \in DOMAIN segs |->
        [Start |-> segs[i].Start, End |-> segs[i].End,
         Text |-> TrimSpace(segs[i].Text)]]

\* ModelUsed of the result: the model parameter, resolved as for --model.
ModelUsedRaw(params) == params["model"].val
ModelUsedOf(params) == GetStringParameter(params, "model")

\* The TranscriptResult built from the decoded output.
BuildResult(out, params) ==
    [isNil |-> FALSE, Text |-> out.Text, Language |-> out.Language,
     ModelUsed |-> ModelUsedOf(params),
     Segments |-> ConvertSegments(out.Segments)]

\* The engine results the normalizer is run on.
RawTimes == {Fin(0), Fin(1), NaN, PosInf, NegInf}
RawSegments == [start : RawTimes, end : RawTimes, text : {StrHi, StrHiPadded}]
SeqsUpTo(S, n) == UNION { [1..k -> S] : k \in 0..n }
RawResults ==
    [text : {StrHi, StrHiPaddedMore}, language : {"en"},
     segments : SeqsUpTo(RawSegments, MaxSegs)]

\* A well-formed output.json: one segment from 0.0 to 1.0, padded texts.
ValidDoc ==
    [text |-> StrHiPaddedMore, language |-> "en",
     segments |-> << [start |-> JNum(0), end |-> JNum(1), text |-> StrHiPadded] >>]

EmptyRaw == [text |-> << >>, language |-> "", segments |-> << >>]
EmptyDoc == [text |-> << >>, language |-> "", segments |-> << >>]

\* ------------------------------------------------------------------- state

VARIABLES
    goos,         \* runtime.GOOS of the host
    initialized,  \* BaseAdapter.initialized, the ready flag
    envDir,       \* <envPath>/MLX exists
    manifest,     \* <envPath>/MLX/pyproject.toml exists
    installed,    \* mlx_whisper resolves inside the environment
    prep,         \* per caller: the PrepareEnvironment call in progress
    job,          \* per job: the Transcribe call in progress
    logs,         \* per output directory: the file mlx_transcription.log
    calls,        \* calls made so far
    nstage,       \* the normalizer run on its own: where it stands
    nraw,         \* ... the engine's result
    ndoc,         \* ... output.json
    nres          \* ... the TranscriptResult

nvars == << nstage, nraw, ndoc, nres >>

vars == << goos, initialized, envDir, manifest, installed, prep, job, logs, calls,
           nvars >>

NoFile == [exists |-> FALSE, creator |-> "none", data |-> {}]

\* A nil *TranscriptResult.
NoResult ==
    [isNil |-> TRUE, Text |-> << >>, Language |-> "", ModelUsed |-> "",
     Segments |-> << >>]

IdlePrep ==
    [pc |-> "idle", ctx |-> "live", err |-> Nil, probes |-> 0, inits |-> 0,
     installs |-> 0, startReady |-> FALSE]

IdleJob ==
    [pc |-> "idle", audio |-> "ok", params |-> [model |-> Absent],
     dir |-> "out1", ctx |-> "live", ws |-> "none", script |-> FALSE,
     logFile |-> "unset", proc |-> "none", launched |-> 0, modelArg |-> "",
     outFile |-> "none", res |-> NoResult, err |-> Nil]

\* The adapter as NewMLXAdapter returns it, with no call made.
AdapterInit ==
    /\ initialized = FALSE
    /\ envDir = FALSE
    /\ manifest = FALSE
    /\ installed = FALSE
    /\ prep = [p \in Preparers |-> IdlePrep]
    /\ job = [j \in Jobs |-> IdleJob]
    /\ logs = [d \in Dirs |-> NoFile]
    /\ calls = 0

Init ==
    /\ goos \in Platforms
    /\ AdapterInit
    /\ nstage = "off"
    /\ nraw = EmptyRaw
    /\ ndoc = EmptyDoc
    /\ nres = NoResult

\* ------------------------------------------------------ PrepareEnvironment

\* runtime.GOOS != "darwin" is refused.
PlatformSupportedAny(os) == TRUE
PlatformSupported(os) == os = "darwin"

\* BaseAdapter's CheckEnvironmentReady(mlxPath, "import mlx_whisper"): the
\* probe resolves the dependency inside the environment, installing nothing.
CheckEnvironmentReady == installed

\* Where the call goes after the probe: a ready environment returns at once.
AfterProbeNeverReturns(ready) == "mkdir"
AfterProbe(ready) == IF ready THEN "done" ELSE "mkdir"

\* The ready flag after the install command returned: set on success, not
\* touched on failure.
InitializedFollowsInstall(ok, old) == ok
InitializedAfterInstall(ok, old) == IF ok THEN TRUE ELSE old

\* A caller enters PrepareEnvironment(ctx); on a supported platform the
\* readiness probe is started.
PrepCall(p) ==
    /\ prep[p].pc \in {"idle", "done"}
    /\ calls < MaxCalls
    /\ calls' = calls + 1
    /\ IF PlatformSupported(goos)
       THEN prep' = [prep EXCEPT ![p] =
                [IdlePrep EXCEPT !.pc = "probe", !.probes = 1,
                                 !.startReady = initialized]]
       ELSE prep' = [prep EXCEPT ![p] =
                [IdlePrep EXCEPT !.pc = "done", !.err = ErrUnsupportedPlatform,
                                 !.startReady = initialized]]
    /\ UNCHANGED << nvars, goos, initialized, envDir, manifest, installed, job, logs >>

\* The probe returns: ready marks the flag and returns nil.
PrepProbeDone(p) ==
    /\ prep[p].pc = "probe"
    /\ LET ready == CheckEnvironmentReady
           next == AfterProbe(ready)
       IN  /\ prep' = [prep EXCEPT ![p].pc = next]
           /\ initialized' = IF next = "done" THEN TRUE ELSE initialized
    /\ UNCHANGED << nvars, goos, envDir, manifest, installed, job, logs, calls >>

\* os.MkdirAll(mlxPath): succeeds when the directory is already there.
PrepMkdir(p) ==
    /\ prep[p].pc = "mkdir"
    /\ \E ok \in BOOLEAN :
        /\ IF ok \/ envDir
           THEN /\ envDir' = TRUE
                /\ prep' = [prep EXCEPT ![p].pc = "stat"]
           ELSE /\ envDir' = envDir
                /\ prep' = [prep EXCEPT ![p].pc = "done", ![p].err = ErrMkdir]
    /\ UNCHANGED << nvars, goos, initialized, manifest, installed, job, logs, calls >>

\* os.Stat(pyproject.toml): "uv init" is to be run only when the manifest is
\* absent, else "uv add" is started directly.
PrepStat(p) ==
    /\ prep[p].pc = "stat"
    /\ IF ~manifest
       THEN prep' = [prep EXCEPT ![p].pc = "initcmd"]
       ELSE prep' = [prep EXCEPT ![p].pc = "install", ![p].installs = @ + 1]
    /\ UNCHANGED << nvars, goos, initialized, envDir, manifest, installed, job, logs, calls >>

\* exec.Command("uv", "init", ...) is started, after the manifest was found
\* absent.
PrepInitStart(p) ==
    /\ prep[p].pc = "initcmd"
    /\ prep' = [prep EXCEPT ![p].pc = "init", ![p].inits = @ + 1]
    /\ UNCHANGED << nvars, goos, initialized, envDir, manifest, installed, job, logs, calls >>

\* initCmd.CombinedOutput() returns; on success "uv add" is started.
PrepInitDone(p) ==
    /\ prep[p].pc = "init"
    /\ \E ok \in BOOLEAN :
        IF ok
        THEN /\ manifest' = TRUE
             /\ prep' = [prep EXCEPT ![p].pc = "install", ![p].installs = @ + 1]
        ELSE /\ manifest' = manifest
             /\ prep' = [prep EXCEPT ![p].pc = "done", ![p].err = ErrInit]
    /\ UNCHANGED << nvars, goos, initialized, envDir, installed, job, logs, calls >>

\* installCmd.CombinedOutput() returns; on success the flag is set.
PrepInstallDone(p) ==
    /\ prep[p].pc = "install"
    /\ \E ok \in BOOLEAN :
        /\ installed' = (installed \/ ok)
        /\ initialized' = InitializedAfterInstall(ok, initialized)
        /\ prep' = [prep EXCEPT ![p].pc = "done",
                                ![p].err = IF ok THEN Nil ELSE ErrInstall]
    /\ UNCHANGED << nvars, goos, envDir, manifest, job, logs, calls >>

\* The caller cancels the context it passed to PrepareEnvironment while one
\* of its subprocesses runs. The commands are built with exec.Command, so
\* nothing reads or watches the context.
PrepCancel(p) ==
    /\ prep[p].pc \in {"probe", "init", "install"}
    /\ prep[p].ctx = "live"
    /\ prep' = [prep EXCEPT ![p].ctx = "canceled"]
    /\ UNCHANGED << nvars, goos, initialized, envDir, manifest, installed, job, logs, calls >>

\* -------------------------------------------------------------- Transcribe

\* What the engine may leave at <workspace>/output.json.
OutFiles == {"none", "malformed", "valid"}

\* BaseAdapter.ValidateAudioInput: the input must reference an existing file.
ValidateAudioInput(audio) == IF audio = "ok" THEN Nil ELSE ErrInvalidInput

\* A validation error returns before anything else is done.
AfterValidateIgnoresError(verr) == "mktemp"
AfterValidate(verr) == IF verr # Nil THEN "done" ELSE "mktemp"

\* BaseAdapter.CleanupTempDirectory: removes the workspace directory.
CleanupTempDirectory(ws) == IF ws = "exists" THEN "removed" ELSE ws

\* defer m.CleanupTempDirectory(tempDir): runs at every return after it was
\* registered, whatever the error.
CleanupOnSuccessOnly(ws, err) == IF err = Nil THEN CleanupTempDirectory(ws) ELSE ws
DeferredCleanup(ws, err) == CleanupTempDirectory(ws)

\* parseResult: reads and decodes output.json and builds the result.
parseResultPartial(outFile, params) ==
    CASE outFile = "none" -> [res |-> NoResult, err |-> ErrReadFile]
      [] outFile = "malformed" ->
            [res |-> BuildResult(Unmarshal(EmptyDoc), params), err |-> ErrParse]
      [] OTHER -> [res |-> BuildResult(Unmarshal(ValidDoc), params), err |-> Nil]
parseResult(outFile, params) ==
    CASE outFile = "none" -> [res |-> NoResult, err |-> ErrReadFile]
      [] outFile = "malformed" -> [res |-> NoResult, err |-> ErrParse]
      [] OTHER -> [res |-> BuildResult(Unmarshal(ValidDoc), params), err |-> Nil]

\* The job record when Transcribe returns (res, err) with the deferred
\* cleanup registered.
Returned(r, res, err) ==
    [r EXCEPT !.pc = "done", !.res = res, !.err = err,
              !.ws = DeferredCleanup(r.ws, err)]

\* The error of cmd.Run when the context is done.
CtxErr(ctx) == IF ctx = "deadline" THEN ErrExecDeadline ELSE ErrExecCanceled

\* A caller enters Transcribe(ctx, input, params, procCtx): the audio input
\* is validated first, and a call that fails there returns before params or
\* procCtx is read.
TrCall(j) ==
    /\ job[j].pc \in {"idle", "done"}
    /\ calls < MaxCalls
    /\ calls' = calls + 1
    /\ \E audio \in {"ok", "missing"} :
        LET verr == ValidateAudioInput(audio)
            next == AfterValidate(verr)
        IN  IF next = "done"
            THEN job' = [job EXCEPT ![j] =
                    [IdleJob EXCEPT !.audio = audio, !.pc = "done", !.err = verr]]
            ELSE \E params \in ParamMaps, dir \in Dirs :
                    job' = [job EXCEPT ![j] =
                        [IdleJob EXCEPT !.audio = audio, !.params = params,
                                        !.dir = dir, !.pc = next]]
    /\ UNCHANGED << nvars, goos, initialized, envDir, manifest, installed, prep, logs >>

\* m.CreateTempDirectory(procCtx): a fresh directory of this job, or an error
\* returned before the cleanup is registered.
TrCreateTemp(j) ==
    /\ job[j].pc = "mktemp"
    /\ \E ok \in BOOLEAN :
        IF ok
        THEN job' = [job EXCEPT ![j].ws = "exists", ![j].pc = "script"]
        ELSE job' = [job EXCEPT ![j].pc = "done", ![j].err = ErrTempDir]
    /\ UNCHANGED << nvars, goos, initialized, envDir, manifest, installed, prep, logs, calls >>

\* os.WriteFile(scriptPath, generatePythonScript()).
TrWriteScript(j) ==
    /\ job[j].pc = "script"
    /\ \E ok \in BOOLEAN :
        IF ok
        THEN job' = [job EXCEPT ![j].script = TRUE, ![j].pc = "start"]
        ELSE job' = [job EXCEPT ![j] = Returned(job[j], NoResult, ErrWriteScript)]
    /\ UNCHANGED << nvars, goos, initialized, envDir, manifest, installed, prep, logs, calls >>

\* The command is built with the resolved model, the log file is created in
\* the output directory (os.Create truncates an existing file; its error is
\* dropped) and cmd.Run starts the engine; a context that is already done
\* makes Start fail without a process.
TrStart(j) ==
    /\ job[j].pc = "start"
    /\ LET created == DirExists(job[j].dir)
           r == [job[j] EXCEPT
                    !.modelArg = GetStringParameter(job[j].params, "model"),
                    !.logFile = IF created THEN "open" ELSE "nil"]
       IN  /\ logs' = IF created
                      THEN [logs EXCEPT ![r.dir] =
                               [exists |-> TRUE, creator |-> j, data |-> {}]]
                      ELSE logs
           /\ IF r.ctx # "live"
              THEN job' = [job EXCEPT ![j] = Returned(r, NoResult, CtxErr(r.ctx))]
              ELSE job' = [job EXCEPT ![j] =
                       [r EXCEPT !.pc = "running", !.proc = "running",
                                 !.launched = @ + 1]]
    /\ UNCHANGED << nvars, goos, initialized, envDir, manifest, installed, prep, calls >>

\* The log file after the engine of job j wrote its output to the handle it
\* inherited; the file stays in the output directory.
EngineWritesThenLogRemoved(j) == [logs EXCEPT ![job[j].dir] = NoFile]
EngineWrites(j) ==
    IF job[j].logFile = "open"
    THEN [logs EXCEPT ![job[j].dir].data = @ \cup {j}]
    ELSE logs

\* The engine exits by itself and cmd.Run returns: a non-zero exit is an
\* error, a zero exit hands output.json to parseResult. When the context
\* was done meanwhile, Run may report the context's error instead of nil.
TrEngineExit(j) ==
    /\ job[j].pc = "running"
    /\ logs' = EngineWrites(j)
    /\ \/ job' = [job EXCEPT ![j] =
                Returned([job[j] EXCEPT !.proc = "exit1"], NoResult, ErrExecExit)]
       \/ \E out \in OutFiles :
            LET r == [job[j] EXCEPT !.proc = "exit0", !.outFile = out]
                pr == parseResult(out, r.params)
            IN  job' = [job EXCEPT ![j] = Returned(r, pr.res, pr.err)]
       \/ /\ job[j].ctx # "live"
          /\ job' = [job EXCEPT ![j] =
                Returned([job[j] EXCEPT !.proc = "exit0"], NoResult,
                         CtxErr(job[j].ctx))]
    /\ UNCHANGED << nvars, goos, initialized, envDir, manifest, installed, prep, calls >>

\* exec.CommandContext: once the context is done the engine is killed and
\* cmd.Run returns the exit error of the killed process.
TrEngineKill(j) ==
    /\ job[j].pc = "running"
    /\ job[j].ctx # "live"
    /\ logs' = EngineWrites(j)
    /\ job' = [job EXCEPT ![j] =
            Returned([job[j] EXCEPT !.proc = "killed"], NoResult, ErrExecKilled)]
    /\ UNCHANGED << nvars, goos, initialized, envDir, manifest, installed, prep, calls >>

\* The caller cancels the context of the job, or its deadline expires. The
\* context is first read by cmd.Run, so a cancellation before that is seen
\* there.
TrCancel(j) ==
    /\ job[j].pc \in {"start", "running"}
    /\ job[j].ctx = "live"
    /\ \E how \in {"canceled", "deadline"} :
        job' = [job EXCEPT ![j].ctx = how]
    /\ UNCHANGED << nvars, goos, initialized, envDir, manifest, installed, prep, logs, calls >>

\* ----------------------------------------------------------- specification

Next ==
    \/ \E p \in Preparers : PrepCall(p)
    \/ \E p \in Preparers : PrepProbeDone(p)
    \/ \E p \in Preparers : PrepMkdir(p)
    \/ \E p \in Preparers : PrepStat(p)
    \/ \E p \in Preparers : PrepInitStart(p)
    \/ \E p \in Preparers : PrepInitDone(p)
    \/ \E p \in Preparers : PrepInstallDone(p)
    \/ \E p \in Preparers : PrepCancel(p)
    \/ \E j \in Jobs : TrCall(j)
    \/ \E j \in Jobs : TrCreateTemp(j)
    \/ \E j \in Jobs : TrWriteScript(j)
    \/ \E j \in Jobs : TrStart(j)
    \/ \E j \in Jobs : TrEngineExit(j)
    \/ \E j \in Jobs : TrEngineKill(j)
    \/ \E j \in Jobs : TrCancel(j)

Spec == Init /\ [][Next]_vars

\* The Go scheduler runs every goroutine that can take a step, and the
\* goroutine watching a CommandContext kills the engine once the context is
\* done. Nothing makes an external uv process exit: it may hang for ever.
FairSpec ==
    /\ Spec
    /\ \A p \in Preparers :
        /\ WF_vars(PrepProbeDone(p))
        /\ WF_vars(PrepMkdir(p))
        /\ WF_vars(PrepStat(p))
        /\ WF_vars(PrepInitStart(p))
    /\ \A j \in Jobs :
        /\ WF_vars(TrCreateTemp(j))
        /\ WF_vars(TrWriteScript(j))
        /\ WF_vars(TrStart(j))
        /\ WF_vars(TrEngineKill(j))

\* The normalizer on its own: the driver script cleans and dumps an engine
\* result, parseResult decodes it and builds the TranscriptResult.
NormInit ==
    /\ goos = "darwin"
    /\ AdapterInit
    /\ nstage = "engine"
    /\ nraw \in RawResults
    /\ ndoc = EmptyDoc
    /\ nres = NoResult

NormDump ==
    /\ nstage = "engine"
    /\ ndoc' = DumpResult(nraw)
    /\ nstage' = "dumped"
    /\ UNCHANGED << goos, initialized, envDir, manifest, installed, prep, job,
                    logs, calls, nraw, nres >>

NormParse ==
    /\ nstage = "dumped"
    /\ nres' = BuildResult(Unmarshal(ndoc), [model |-> Absent])
    /\ nstage' = "parsed"
    /\ UNCHANGED << goos, initialized, envDir, manifest, installed, prep, job,
                    logs, calls, nraw, ndoc >>

NormNext == NormDump \/ NormParse

NormSpec == NormInit /\ [][NormNext]_vars

\* ------------------------------------------------------------------ claims

\* C1: once a Transcribe call that created a workspace has returned, the
\* workspace directory no longer exists, on every exit path.
C1_WorkspaceRemovedOnReturn ==
    \A j \in Jobs : job[j].pc = "done" => job[j].ws # "exists"

\* Two returned jobs that both had a workspace, one that succeeded and one
\* whose engine was killed on cancellation.
C1_Witness ==
    \E a, b \in Jobs :
        /\ job[a].pc = "done" /\ job[a].ws = "removed" /\ job[a].err = Nil
        /\ job[b].pc = "done" /\ job[b].ws = "removed" /\ job[b].err = ErrExecKilled

\* C2: concurrent Transcribe calls never interfere with each other's log:
\* while a job's engine runs, the log file at its path is the one that job
\* created and holds no other job's output, whatever the output directories.
C2_LogsNeverShared ==
    \A a \in Jobs :
        (job[a].pc = "running" /\ job[a].logFile = "open") =>
            /\ logs[job[a].dir].creator = a
            /\ logs[job[a].dir].data \subseteq {a}

\* C3: at most one caller of PrepareEnvironment has an init or install
\* subprocess in progress at any time.
C3_AtMostOneProvisioning ==
    Cardinality({ p \in Preparers : prep[p].pc \in {"init", "install"} }) <= 1

\* C4: a Transcribe call whose engine was terminated because its context was
\* cancelled (its deadline expired) returns an error identified as
\* ExecutionCancelled (ExecutionTimeout), with the workspace removed.
C4_CancelledRunReportsCancellation ==
    \A j \in Jobs :
        (job[j].pc = "done" /\ job[j].proc = "killed") =>
            /\ job[j].ws # "exists"
            /\ job[j].ctx = "canceled" => ErrorKind(job[j].err) = "ExecutionCancelled"
            /\ job[j].ctx = "deadline" => ErrorKind(job[j].err) = "ExecutionTimeout"

\* C5: a call whose context is cancelled while one of its subprocesses runs
\* does not stay blocked on that subprocess: the call returns.
C5_CancelUnblocksCall ==
    /\ \A p \in Preparers :
        (prep[p].ctx = "canceled" /\ prep[p].pc \in {"init", "install"})
            ~> (prep[p].pc = "done")
    /\ \A j \in Jobs :
        (job[j].ctx # "live" /\ job[j].pc = "running") ~> (job[j].pc = "done")

\* C6: a PrepareEnvironment call entered with the flag already ready runs
\* only the probe: no init, no install, and it returns nil with the flag
\* still ready.
C6_SecondPrepareIsNoOp ==
    \A p \in Preparers :
        prep[p].startReady =>
            /\ prep[p].pc \in {"probe", "done"}
            /\ prep[p].inits = 0 /\ prep[p].installs = 0
            /\ prep[p].probes = 1
            /\ initialized
            /\ prep[p].pc = "done" => prep[p].err = Nil

\* A call entered on a ready environment has returned.
C6_Witness ==
    \E p \in Preparers :
        prep[p].startReady /\ prep[p].pc = "done" /\ prep[p].probes = 1

\* C7: the ready flag is unset at construction, is never unset once set, and
\* is set only by a successful probe or a successful install.
C7_ReadyFlagOneWay ==
    /\ ~initialized
    /\ [][ /\ initialized => initialized'
           /\ (~initialized /\ initialized') =>
                \E p \in Preparers :
                    \/ /\ prep[p].pc = "probe" /\ installed
                       /\ prep'[p].pc = "done" /\ prep'[p].err = Nil
                    \/ /\ prep[p].pc = "install" /\ installed'
                       /\ prep'[p].pc = "done" /\ prep'[p].err = Nil ]_vars

\* The flag is ready, set by one call, after the install of another call
\* has failed.
C7_Witness ==
    /\ initialized
    /\ \E p, q \in Preparers :
        /\ prep[p].pc = "done" /\ prep[p].err = ErrInstall
        /\ prep[q].pc = "done" /\ prep[q].err = Nil /\ prep[q].installs = 1

\* C8: on a host that is not darwin PrepareEnvironment fails with
\* UnsupportedPlatform and changes nothing: the flag, the directory, the
\* manifest and the environment stay as constructed and no probe, init or
\* install subprocess is started.
C8_UnsupportedPlatformRefused ==
    goos # "darwin" =>
        /\ ~initialized /\ ~envDir /\ ~manifest /\ ~installed
        /\ \A p \in Preparers :
            /\ prep[p].pc \in {"idle", "done"}
            /\ prep[p].probes = 0 /\ prep[p].inits = 0 /\ prep[p].installs = 0
            /\ prep[p].pc = "done" => ErrorKind(prep[p].err) = "UnsupportedPlatform"

\* PrepareEnvironment has returned on a linux host.
C8_Witness ==
    /\ goos = "linux"
    /\ \E p \in Preparers : prep[p].pc = "done" /\ prep[p].err = ErrUnsupportedPlatform

\* C9: with a missing audio file Transcribe returns InvalidInput at once: no
\* workspace, no log file and no subprocess.
C9_MissingAudioRefused ==
    \A j \in Jobs :
        (job[j].pc # "idle" /\ job[j].audio = "missing") =>
            /\ job[j].pc = "done"
            /\ ErrorKind(job[j].err) = "InvalidInput"
            /\ job[j].res.isNil
            /\ job[j].ws = "none"
            /\ job[j].logFile = "unset"
            /\ job[j].launched = 0

\* A Transcribe call on a missing audio file has returned.
C9_Witness ==
    \E j \in Jobs : job[j].pc = "done" /\ job[j].audio = "missing"

\* C10: a Transcribe call whose params hold a value of the wrong type for a
\* declared parameter never starts the engine and fails with
\* InvalidParameter.
C10_WrongTypeRefused ==
    \A j \in Jobs :
        (job[j].pc # "idle" /\ job[j].audio = "ok"
           /\ job[j].params.model.present
           /\ job[j].params.model.type # "string") =>
            /\ job[j].launched = 0
            /\ job[j].pc = "done" =>
                 (job[j].err = ErrTempDir \/ job[j].err = ErrWriteScript
                    \/ ErrorKind(job[j].err) = "InvalidParameter")

C15_FailureKindsDistinguished ==
    \A j \in Jobs :
        job[j].pc = "done" =>
            /\ job[j].proc = "exit1" =>
                 ErrorKind(job[j].err) = "EngineExecutionFailed"
            /\ (job[j].proc = "exit0" /\ job[j].outFile = "malformed") =>
                 ErrorKind(job[j].err) = "OutputParseError"
            /\ (job[j].proc = "exit0" /\ job[j].outFile = "none"
                  /\ ErrorKind(job[j].err)
                        \notin {"ExecutionCancelled", "ExecutionTimeout"}) =>
                 ErrorKind(job[j].err) = "EngineExecutionFailed"

\* C18: Transcribe leaves the environment state alone and never launches the
\* engine while the ready flag is unset.
C18_EngineOnlyOnReadyEnvironment ==
    \A j \in Jobs : job[j].launched > 0 => initialized

\* C20: a returned Transcribe call holds no open log handle, and a call
\* whose log file could not be created does not launch the engine.
C20_NoLogHandleAfterReturn ==
    \A j \in Jobs :
        /\ job[j].pc = "done" => job[j].logFile # "open"
        /\ job[j].logFile = "nil" => job[j].launched = 0

\* C17: after a failed probe the steps run in order: the directory is
\* created, init is started only while the manifest is absent, install is
\* started only once the manifest exists; a failing step returns at once,
\* runs no later step and leaves the flag alone, and the directory is never
\* removed.
C17_ProvisioningStepOrder ==
    [][ /\ envDir => envDir'
        /\ \A p \in Preparers :
            /\ (prep[p].pc # "init" /\ prep'[p].pc = "init") =>
                 (envDir /\ ~manifest)
            /\ (prep[p].pc # "install" /\ prep'[p].pc = "install") =>
                 (envDir /\ manifest')
            /\ (prep[p].pc # "done" /\ prep'[p].pc = "done"
                  /\ prep'[p].err # Nil) =>
                 /\ initialized' = initialized
                 /\ prep'[p].err = ErrMkdir =>
                      (prep'[p].inits = 0 /\ prep'[p].installs = 0)
                 /\ prep'[p].err = ErrInit => prep'[p].installs = 0 ]_vars

\* A text without leading or trailing whitespace.
Trimmed(str) == str = << >> \/ (~IsSpace(Head(str)) /\ ~IsSpace(str[Len(str)]))

\* C12: a non-finite start or end of an engine segment is absent (null) in
\* the result, told apart from every number, and a finite one keeps its
\* value.
C12_NonFiniteBecomesAbsent ==
    nstage = "parsed" =>
        \A i \in DOMAIN nraw.segments :
            LET r == nraw.segments[i]
                n == nres.Segments[i]
            IN  /\ IF IsFinite(r.start)
                   THEN n.Start = Float64(r.start.v)
                   ELSE n.Start.kind = "null"
                /\ IF IsFinite(r.end)
                   THEN n.End = Float64(r.end.v)
                   ELSE n.End.kind = "null"

\* C13: the full text and every segment text of a result have no leading or
\* trailing whitespace; the engine output with text " hi  " and one segment
\* " hi " from 0.0 to 1.0 gives text "hi" and one segment "hi" from 0.0 to
\* 1.0.
C13_TextFieldsTrimmed ==
    nstage = "parsed" =>
        /\ Trimmed(nres.Text)
        /\ \A i \in DOMAIN nres.Segments : Trimmed(nres.Segments[i].Text)
        /\ (/\ nraw.text = StrHiPaddedMore
            /\ nraw.segments =
                 << [start |-> Fin(0), end |-> Fin(1), text |-> StrHiPadded] >>) =>
             /\ nres.Text = StrHi
             /\ nres.Segments =
                  << [Start |-> Float64(0), End |-> Float64(1), Text |-> StrHi] >>

\* Segments of output.json whose times are numbers with start <= end and
\* non-decreasing starts.
DocOrdered(segs) ==
    \A i \in DOMAIN segs :
        /\ segs[i].start.kind = "num" /\ segs[i].end.kind = "num"
        /\ segs[i].start.v <= segs[i].end.v
        /\ i > 1 => (segs[i - 1].start.kind = "num"
                        /\ segs[i].start.v >= segs[i - 1].start.v)

\* Segments of a result with start <= end and non-decreasing starts.
ResOrdered(segs) ==
    \A i \in DOMAIN segs :
        /\ segs[i].Start.v <= segs[i].End.v
        /\ i > 1 => segs[i].Start.v >= segs[i - 1].Start.v

\* C14: the result has as many segments as the engine output, in the same
\* order, each with the finite start and end of its source, so segments that
\* were ordered stay ordered.
C14_SegmentSequencePreserved ==
    nstage = "parsed" =>
        /\ Len(nres.Segments) = Len(nraw.segments)
        /\ Len(nres.Segments) = Len(ndoc.segments)
        /\ \A i \in DOMAIN ndoc.segments :
            /\ IsFinite(nraw.segments[i].start) =>
                 nres.Segments[i].Start = Float64(nraw.segments[i].start.v)
            /\ IsFinite(nraw.segments[i].end) =>
                 nres.Segments[i].End = Float64(nraw.segments[i].end.v)
            /\ nres.Segments[i].Text = TrimSpace(nraw.segments[i].text)
        /\ DocOrdered(ndoc.segments) => ResOrdered(nres.Segments)

\* A parsed result of two ordered segments with different times and texts.
C14_Witness ==
    /\ nstage = "parsed"
    /\ Len(ndoc.segments) = 2
    /\ DocOrdered(ndoc.segments)
    /\ ndoc.segments[1].start.v < ndoc.segments[1].end.v
    /\ ndoc.segments[1].start.v < ndoc.segments[2].start.v
    /\ ndoc.segments[1].text # ndoc.segments[2].text
    /\ ResOrdered(nres.Segments)

\* C16: a returned Transcribe call carries either an error and no result, or
\* no error and a result with text, language, model and segments.
C16_ResultXorError ==
    \A j \in Jobs :
        job[j].pc = "done" =>
            /\ job[j].err # Nil => job[j].res = NoResult
            /\ job[j].err = Nil =>
                 /\ ~job[j].res.isNil
                 /\ job[j].res.Text = ValidDoc.text
                 /\ job[j].res.Language = ValidDoc.language
                 /\ job[j].res.ModelUsed # ""
                 /\ Len(job[j].res.Segments) = Len(ValidDoc.segments)

\* One call that returned a result and one whose output could not be parsed.
C16_Witness ==
    \E a, b \in Jobs :
        /\ job[a].pc = "done" /\ job[a].err = Nil /\ ~job[a].res.isNil
        /\ job[b].pc = "done" /\ job[b].err = ErrParse /\ job[b].res.isNil
        /\ job[b].proc = "exit0"

\* C19: a successful call reports as ModelUsed the --model argument of its
\* engine; the engine is launched at most once per call, after the script
\* was written.
C19_ModelUsedIsModelArg ==
    \A j \in Jobs :
        /\ (job[j].pc = "done" /\ job[j].err = Nil) =>
             job[j].res.ModelUsed = job[j].modelArg
        /\ job[j].launched <= 1
        /\ job[j].launched > 0 => (job[j].script /\ job[j].ws # "none")

\* Two successful calls, one without a model parameter (the default is
\* used) and one with a model of its own.
C19_Witness ==
    \E a, b \in Jobs :
        /\ job[a].pc = "done" /\ job[a].err = Nil
        /\ job[a].params["model"] = Absent
        /\ job[a].res.ModelUsed = DefaultModel /\ job[a].launched = 1
        /\ job[b].pc = "done" /\ job[b].err = Nil
        /\ job[b].params["model"] = StrVal(BaseModel)
        /\ job[b].res.ModelUsed = BaseModel /\ job[b].launched = 1

====
